---- MODULE Spec2Model ----
(***************************************************************************)
(* A model of the sensaur hub (src/sensaur.py, src/crc.py, src/run.py):    *)
(* the framed serial protocol with its CRC-16 checksum, the device and     *)
(* component registry, and the three greenlets (poller, receiver,          *)
(* disconnect checker) that share it.                                      *)
(*                                                                         *)
(* Text is a sequence of one-character strings, so that the code's         *)
(* split / strip / int / float / '%X' are computed character by character. *)
(* The program is Python 2 (src/run.py uses the print statement):          *)
(* dict.items() is a list copy and str is a byte string.                   *)
(*                                                                         *)
(* The operations on text are written as functions: a function is applied  *)
(* to computed values, which keeps the evaluation of a loop linear.        *)
(***************************************************************************)
EXTENDS Integers, Sequences, FiniteSets, TLC

(***************************************************************************)
(* Python values                                                           *)
(***************************************************************************)

\* a str
Text == Seq(STRING)

\* Python's None, as a value comparable with text and different from all text
None == <<"None">>

Digits == <<"0", "1", "2", "3", "4", "5", "6", "7", "8", "9">>

UpperHex == <<"0", "1", "2", "3", "4", "5", "6", "7", "8", "9", "A", "B", "C", "D", "E", "F">>

LowerHex == <<"0", "1", "2", "3", "4", "5", "6", "7", "8", "9", "a", "b", "c", "d", "e", "f">>

\* the vertical tab, chr(11), which no escape of a string of this language
\* names: the string holds the character itself
VerticalTab == ""

\* the characters str.strip(), int() and float() treat as white space
Whitespace == {" ", "\t", "\n", VerticalTab, "\f", "\r"}

\* ord(c) for the white space and the printable characters of ASCII (but the
\* grave accent, which a string of this language cannot hold)
Ascii ==
    "\t" :> 9 @@ "\n" :> 10 @@ VerticalTab :> 11 @@ "\f" :> 12 @@ "\r" :> 13
    @@ " " :> 32
    @@ "!" :> 33 @@ "\"" :> 34 @@ "#" :> 35 @@ "$" :> 36 @@ "%" :> 37
    @@ "&" :> 38 @@ "'" :> 39 @@ "(" :> 40 @@ ")" :> 41 @@ "*" :> 42
    @@ "+" :> 43 @@ "," :> 44 @@ "-" :> 45 @@ "." :> 46 @@ "/" :> 47
    @@ "0" :> 48 @@ "1" :> 49 @@ "2" :> 50 @@ "3" :> 51 @@ "4" :> 52
    @@ "5" :> 53 @@ "6" :> 54 @@ "7" :> 55 @@ "8" :> 56 @@ "9" :> 57
    @@ ":" :> 58 @@ ";" :> 59 @@ "<" :> 60 @@ "=" :> 61 @@ ">" :> 62
    @@ "?" :> 63 @@ "@" :> 64 @@ "A" :> 65 @@ "B" :> 66 @@ "C" :> 67
    @@ "D" :> 68 @@ "E" :> 69 @@ "F" :> 70 @@ "G" :> 71 @@ "H" :> 72
    @@ "I" :> 73 @@ "J" :> 74 @@ "K" :> 75 @@ "L" :> 76 @@ "M" :> 77
    @@ "N" :> 78 @@ "O" :> 79 @@ "P" :> 80 @@ "Q" :> 81 @@ "R" :> 82
    @@ "S" :> 83 @@ "T" :> 84 @@ "U" :> 85 @@ "V" :> 86 @@ "W" :> 87
    @@ "X" :> 88 @@ "Y" :> 89 @@ "Z" :> 90 @@ "[" :> 91 @@ "\\" :> 92
    @@ "]" :> 93 @@ "^" :> 94 @@ "_" :> 95 @@ "a" :> 97
    @@ "b" :> 98 @@ "c" :> 99 @@ "d" :> 100 @@ "e" :> 101 @@ "f" :> 102
    @@ "g" :> 103 @@ "h" :> 104 @@ "i" :> 105 @@ "j" :> 106 @@ "k" :> 107
    @@ "l" :> 108 @@ "m" :> 109 @@ "n" :> 110 @@ "o" :> 111 @@ "p" :> 112
    @@ "q" :> 113 @@ "r" :> 114 @@ "s" :> 115 @@ "t" :> 116 @@ "u" :> 117
    @@ "v" :> 118 @@ "w" :> 119 @@ "x" :> 120 @@ "y" :> 121 @@ "z" :> 122
    @@ "{" :> 123 @@ "|" :> 124 @@ "}" :> 125 @@ "~" :> 126

ord(c) == Ascii[c]

\* position of the first c in s, or 0
Find[s \in Text, c \in STRING] ==
    IF \E k \in 1..Len(s) : s[k] = c
    THEN CHOOSE k \in 1..Len(s) : s[k] = c /\ \A j \in 1..(k - 1) : s[j] # c
    ELSE 0

\* c in s
Contains(s, c) == Find[s, c] > 0

IsDigit(c) == Find[Digits, c] > 0

IsHexDigit(c) == Find[UpperHex, c] > 0 \/ Find[LowerHex, c] > 0

\* the value of a digit in base 10 or 16
HexValue[c \in STRING] ==
    IF Find[UpperHex, c] > 0 THEN Find[UpperHex, c] - 1 ELSE Find[LowerHex, c] - 1

(***************************************************************************)
(* Bit operations on integers in 0 .. 65535                                *)
(***************************************************************************)

\* a ^ b on one bit
Xor1(a, b) == (a + b) % 2

\* a ^ b on four bits
Xor4[a \in 0..15, b \in 0..15] ==
    Xor1(a % 2, b % 2)
    + 2 * Xor1((a \div 2) % 2, (b \div 2) % 2)
    + 4 * Xor1((a \div 4) % 2, (b \div 4) % 2)
    + 8 * Xor1((a \div 8) % 2, (b \div 8) % 2)

\* a ^ b
BitXor[a \in 0..65535, b \in 0..65535] ==
    Xor4[a % 16, b % 16]
    + 16 * Xor4[(a \div 16) % 16, (b \div 16) % 16]
    + 256 * Xor4[(a \div 256) % 16, (b \div 256) % 16]
    + 4096 * Xor4[(a \div 4096) % 16, (b \div 4096) % 16]

(***************************************************************************)
(* src/crc.py                                                              *)
(***************************************************************************)

\* crc16_update.  The masks and shifts are written as arithmetic:
\* x & 0xFF is x % 256, x << k is x * 2^k, x >> k is x \div 2^k, and the |
\* joins a value whose low byte is zero with a value below 256, which is
\* their sum.  Every intermediate value is below 65536 for data below 256.
\*   shuffled[d] is line 15 applied to d, result[d] is line 16.
crc16_update(crc, data) ==
    LET result[d \in 0..255] ==
            BitXor[BitXor[((d * 256) % 65536) + ((crc \div 256) % 256), d \div 16],
                   d * 8]
        shuffled[d \in 0..255] == result[BitXor[d, (d * 16) % 256]]
    IN  shuffled[BitXor[data, crc % 256]]

\* the loop of crc16_ccitt from character i on, the register being crc
crc16_loop[message \in Text, i \in Nat, crc \in 0..65535] ==
    IF i > Len(message) THEN crc
    ELSE crc16_loop[message, i + 1, crc16_update(crc, ord(message[i]))]

crc16_ccitt(message) == crc16_loop[message, 1, 65535]

(***************************************************************************)
(* Python string operations                                                *)
(***************************************************************************)

\* s[i:] with i counted from 1
From[s \in Text, i \in Nat] == IF i > Len(s) THEN <<>> ELSE SubSeq(s, i, Len(s))

\* s.split(c): every piece between separators, empty pieces kept
split[s \in Text, c \in STRING] ==
    IF Find[s, c] = 0 THEN <<s>>
    ELSE <<SubSeq(s, 1, Find[s, c] - 1)>> \o split[From[s, Find[s, c] + 1], c]

\* s.split(c, 1): at most one split, at the first separator
split1[s \in Text, c \in STRING] ==
    IF Find[s, c] = 0 THEN <<s>>
    ELSE <<SubSeq(s, 1, Find[s, c] - 1), From[s, Find[s, c] + 1]>>

\* s.strip()
strip[s \in Text] ==
    IF \A k \in 1..Len(s) : s[k] \in Whitespace THEN <<>>
    ELSE SubSeq(s,
                CHOOSE k \in 1..Len(s) :
                    s[k] \notin Whitespace /\ \A j \in 1..(k - 1) : s[j] \in Whitespace,
                CHOOSE k \in 1..Len(s) :
                    s[k] \notin Whitespace /\ \A j \in (k + 1)..Len(s) : s[j] \in Whitespace)

\* c.join(parts)
join[c \in STRING, parts \in Seq(Text)] ==
    IF parts = <<>> THEN <<>>
    ELSE IF Len(parts) = 1 THEN parts[1]
    ELSE parts[1] \o <<c>> \o join[c, Tail(parts)]

\* '%d' % n, for n >= 0
FormatNat[n \in Nat] ==
    IF n < 10 THEN <<Digits[n + 1]>>
    ELSE FormatNat[n \div 10] \o <<Digits[(n % 10) + 1]>>

\* '%d' % n
FormatInt(n) == IF n < 0 THEN <<"-">> \o FormatNat[0 - n] ELSE FormatNat[n]

\* '%X' % n, for n >= 0: upper case, no padding
FormatHex[n \in Nat] ==
    IF n < 16 THEN <<UpperHex[n + 1]>>
    ELSE FormatHex[n \div 16] \o <<UpperHex[(n % 16) + 1]>>

\* the value of a run of digits in the given base, after the digits read so far
DigitsValue[s \in Text, base \in Nat, acc \in Nat] ==
    IF s = <<>> THEN acc
    ELSE DigitsValue[Tail(s), base, acc * base + HexValue[s[1]]]

AllDigits[s \in Text] == s # <<>> /\ \A i \in 1..Len(s) : IsDigit(s[i])

AllHexDigits[s \in Text] == s # <<>> /\ \A i \in 1..Len(s) : IsHexDigit(s[i])

\* a leading sign split off: <<sign, rest>>
Signed[s \in Text] ==
    IF s # <<>> /\ s[1] = "-" THEN <<-1, Tail(s)>>
    ELSE IF s # <<>> /\ s[1] = "+" THEN <<1, Tail(s)>>
    ELSE <<1, s>>

\* s without the white space it begins with
lstrip[s \in Text] ==
    IF s # <<>> /\ s[1] \in Whitespace THEN lstrip[Tail(s)] ELSE s

\* int(s) of Python 2: white space stripped, an optional sign, white space
\* again, then decimal digits; anything else is a ValueError (ok is FALSE)
ParseInt[s \in Text] ==
    IF AllDigits[lstrip[Signed[strip[s]][2]]]
    THEN [ok |-> TRUE,
          value |-> Signed[strip[s]][1]
                    * DigitsValue[lstrip[Signed[strip[s]][2]], 10, 0]]
    ELSE [ok |-> FALSE, value |-> 0]

\* a 0x or 0X prefix, which int(s, 16) accepts, removed
StripHexPrefix[s \in Text] ==
    IF Len(s) >= 2 /\ s[1] = "0" /\ s[2] \in {"x", "X"} THEN Tail(Tail(s)) ELSE s

\* int(s, 16) of Python 2: white space stripped, an optional sign, white
\* space again, an optional 0x, then hexadecimal digits of either case;
\* anything else is a ValueError
ParseHex[s \in Text] ==
    IF AllHexDigits[StripHexPrefix[lstrip[Signed[strip[s]][2]]]]
    THEN [ok |-> TRUE,
          value |-> Signed[strip[s]][1]
                    * DigitsValue[StripHexPrefix[lstrip[Signed[strip[s]][2]]], 16, 0]]
    ELSE [ok |-> FALSE, value |-> 0]

\* digits, optionally with one decimal point, at least one digit in all
IsDecimal[s \in Text] ==
    IF Find[s, "."] = 0 THEN AllDigits[s]
    ELSE /\ Find[s, "."] = 1 \/ AllDigits[SubSeq(s, 1, Find[s, "."] - 1)]
         /\ Find[s, "."] = Len(s) \/ AllDigits[From[s, Find[s, "."] + 1]]
         /\ Len(s) > 1

\* position of the exponent marker in s, or 0
ExponentAt[s \in Text] == IF Find[s, "e"] > 0 THEN Find[s, "e"] ELSE Find[s, "E"]

UpperAlpha ==
    <<"A", "B", "C", "D", "E", "F", "G", "H", "I", "J", "K", "L", "M", "N", "O",
      "P", "Q", "R", "S", "T", "U", "V", "W", "X", "Y", "Z">>

LowerAlpha ==
    <<"a", "b", "c", "d", "e", "f", "g", "h", "i", "j", "k", "l", "m", "n", "o",
      "p", "q", "r", "s", "t", "u", "v", "w", "x", "y", "z">>

\* s.lower()
lower[s \in Text] ==
    [k \in 1..Len(s) |->
        IF Find[UpperAlpha, s[k]] > 0 THEN LowerAlpha[Find[UpperAlpha, s[k]]] ELSE s[k]]

\* a number without sign: inf, infinity or nan in any case, or a decimal with
\* an optional exponent
IsUnsignedFloat[p \in Text] ==
    \/ lower[p] \in {<<"i", "n", "f">>, <<"n", "a", "n">>,
                     <<"i", "n", "f", "i", "n", "i", "t", "y">>}
    \/ ExponentAt[p] = 0 /\ IsDecimal[p]
    \/ /\ ExponentAt[p] > 0
       /\ IsDecimal[SubSeq(p, 1, ExponentAt[p] - 1)]
       /\ AllDigits[Signed[From[p, ExponentAt[p] + 1]][2]]

\* float(s) succeeds: white space stripped, an optional sign, then a number
IsFloat[s \in Text] == IsUnsignedFloat[Signed[strip[s]][2]]

(***************************************************************************)
(* src/sensaur.py: the data model                                          *)
(***************************************************************************)

\* Component.__init__ followed by the assignments of the metadata branch.
\* The owning Device object is referred to by its index: a device's
\* components leave the hub's list in the step that deletes the device, so
\* no component of the hub outlives the Device object it points to.
\* output_value is kept as the text str() makes of it (the initial 0 is '0').
Component(index, dir, type, model, units, name) ==
    [device |-> index, name |-> name, dir |-> dir, type |-> type,
     model |-> model, units |-> units, output_value |-> <<"0">>]

\* Device.__init__.  silence is time.time() - last_message_time, in ticks:
\* 0 when the timestamp is taken.
Device(index) ==
    [index |-> index, id |-> None, components |-> <<>>, silence |-> 0]

(***************************************************************************)
(* Hub.send_serial_emssage                                                 *)
(***************************************************************************)

\* send_serial_emssage that leaves the checksum out
send_serial_emssage_Bare(message) == message \o <<"\n">>

\* the line written to the serial port for a command
send_serial_emssage(message) ==
    message \o <<"|">> \o FormatHex[crc16_ccitt(message)] \o <<"\n">>

\* the values the application sets outputs to, as str() gives them
OutputValues == {<<"0">>, <<"1">>}

\* the commands of the runs: the poll, the metadata requests of the indexes
\* the lines carry, and the output commands of a device with two outputs
CommandBodies ==
    {<<"p">>}
    \cup {FormatInt(i) \o <<">", "m">> : i \in (0 - 1)..1}
    \cup {<<"0", ">", "s", ":">> \o v \o <<",">> \o w : v \in OutputValues, w \in OutputValues}

\* every command of the runs with the line send_serial_emssage writes for
\* it: computed once, and looked up by Sent.  A command that is not of
\* these is encoded when it is sent.
CommandTable == {<<body, send_serial_emssage(body)>> : body \in CommandBodies}

Sent(body) ==
    IF \E entry \in CommandTable : entry[1] = body
    THEN (CHOOSE entry \in CommandTable : entry[1] = body)[2]
    ELSE send_serial_emssage(body)

(***************************************************************************)
(* Hub.find_component, Hub.assign_name                                     *)
(***************************************************************************)

\* find_component(name) finds something
find_component(components, name) ==
    \E k \in 1..Len(components) : components[k].name = name

\* the while loop of assign_name, entered with the candidate name and i
RECURSIVE assign_name_loop(_, _, _, _)
assign_name_loop(components, type, name, i) ==
    IF find_component(components, name)
    THEN assign_name_loop(components, type, type \o <<" ">> \o FormatInt(i), i + 1)
    ELSE name

\* assign_name that does not look the name up
assign_name_Plain(components, type) == type

assign_name(components, type) == assign_name_loop(components, type, type, 2)

(***************************************************************************)
(* Hub.run_input_handlers                                                  *)
(***************************************************************************)

\* A handler is the callable the application registered, known here by its
\* place in the order of registration.  raising is the set of handlers
\* whose call raises while this message is processed.  The result is the
\* calls made, in order: a handler that raises ends the loop, the exception
\* leaving run_input_handlers.
RECURSIVE run_input_handlers(_, _, _, _)
run_input_handlers(handlers, raising, component, values) ==
    IF handlers = <<>> THEN <<>>
    ELSE <<[handler |-> handlers[1], component |-> component, values |-> values]>>
         \o (IF handlers[1] \in raising THEN <<>>
             ELSE run_input_handlers(Tail(handlers), raising, component, values))

(***************************************************************************)
(* Hub.process_serial_message: what it reads off the text of the message   *)
(***************************************************************************)

\* CheckChecksum that reads the checksum field and does not compare it
CheckChecksum_Unverified(message) ==
    IF ~Contains(message, "|") THEN "missing"
    ELSE IF ~ParseHex[split[message, "|"][2]].ok THEN "raise"
    ELSE "ok"

\* lines 126-136: "missing", "raise" (int(parts[1], 16) is a ValueError),
\* "mismatch" or "ok"
CheckChecksum(message) ==
    IF ~Contains(message, "|") THEN "missing"
    ELSE IF ~ParseHex[split[message, "|"][2]].ok THEN "raise"
    ELSE IF crc16_ccitt(split[message, "|"][1]) # ParseHex[split[message, "|"][2]].value
    THEN "mismatch"
    ELSE "ok"

\* lines 139-154: the message body parsed.  relevant is FALSE when the body
\* has no '>' or its index is no integer, and the message is ignored.
\* Without ':' the command is the whole body and args is the empty list.
ParseBody(body) ==
    IF ~Contains(body, ">") THEN [relevant |-> FALSE]
    ELSE IF ~ParseInt[split1[body, ">"][1]].ok THEN [relevant |-> FALSE]
    ELSE IF Contains(body, ":")
    THEN [relevant |-> TRUE,
          device_index |-> ParseInt[split1[body, ">"][1]].value,
          command |-> split1[split1[body, ">"][2], ":"][1],
          args |-> split1[split1[body, ">"][2], ":"][2]]
    ELSE [relevant |-> TRUE,
          device_index |-> ParseInt[split1[body, ">"][1]].value,
          command |-> body,
          args |-> <<>>]

\* lines 164 and 170: args.split(','), and for each value whether float()
\* accepts it
ParseValues(args) ==
    [values |-> split[args, ","],
     numeric |-> [k \in 1..Len(split[args, ","]) |-> IsFloat[split[args, ","][k]]]]

\* lines 184 and 191: args.split(';'), and arg.split(',') for each field
\* after the second
ParseMetadata(args) ==
    [fields |-> split[args, ";"],
     infos |-> [k \in 1..(Len(split[args, ";"]) - 2) |->
                    split[split[args, ";"][k + 2], ","]]]

\* all that process_serial_message computes from the text of the message
\* alone, in the order of the code; a part the code does not reach for this
\* message is left empty
Decode(message) ==
    LET check == CheckChecksum(message)
        ev == ParseBody(split[message, "|"][1])
        isValues == ev.command = <<"v">>
        isMetadata == ev.command = <<"m">>
    IN  IF check # "ok" THEN [check |-> check, relevant |-> FALSE]
        ELSE IF ~ev.relevant THEN [check |-> "ok", relevant |-> FALSE]
        ELSE [check |-> "ok", relevant |-> TRUE,
              device_index |-> ev.device_index,
              command |-> ev.command,
              values |-> IF isValues THEN ParseValues(ev.args).values ELSE <<>>,
              numeric |-> IF isValues THEN ParseValues(ev.args).numeric ELSE <<>>,
              fields |-> IF isMetadata THEN ParseMetadata(ev.args).fields ELSE <<>>,
              infos |-> IF isMetadata THEN ParseMetadata(ev.args).infos ELSE <<>>]

(***************************************************************************)
(* Hub.disconnect_checker                                                  *)
(***************************************************************************)

\* Time is counted in ticks of half a time unit, so that the 3.5 of line 98
\* and the 1.0 of line 95 are whole numbers of ticks.
SilenceThreshold == 7

CheckInterval == 2

\* All silences above the threshold are alike to the code, which only
\* compares with the threshold: the model stops counting one tick above it.
MaxSilence == SilenceThreshold + 1

\* Silent with the threshold taken in ticks instead of time units
Silent_Doubled(d) == d.silence > 2 * SilenceThreshold

\* t - d.last_message_time > 3.5
Silent(d) == d.silence > SilenceThreshold

\* disconnect_check without line 100: the silent devices are deleted and
\* their components stay in the hub's list
disconnect_check_KeepComponents(devices, components) ==
    [devices |-> [i \in DOMAIN devices \ {j \in DOMAIN devices : Silent(devices[j])}
                      |-> devices[i]],
     components |-> components]

\* lines 96-101: every silent device deleted from the map, its components
\* filtered out of the hub's list.  (items() is a list in Python 2, so the
\* deletions do not disturb the loop, and their order does not matter.)
disconnect_check(devices, components) ==
    LET removed == {i \in DOMAIN devices : Silent(devices[i])}
    IN  [devices |-> [i \in DOMAIN devices \ removed |-> devices[i]],
         components |-> SelectSeq(components, LAMBDA c : c.device \notin removed)]

(***************************************************************************)
(* The lines the serial port delivers                                      *)
(***************************************************************************)

\* 0>m:1;devA;i,temp;o,relay|8F1F\n
LineMetadataA ==
    <<"0", ">", "m", ":", "1", ";", "d", "e", "v", "A", ";", "i", ",", "t",
      "e", "m", "p", ";", "o", ",", "r", "e", "l", "a", "y", "|", "8", "F",
      "1", "F", "\n">>

\* 0>v:23.5|47AE\n
LineValuesA ==
    <<"0", ">", "v", ":", "2", "3", ".", "5", "|", "4", "7", "A", "E", "\n">>

\* 0>v:1,2|A1F0\n
LineValuesTwo ==
    <<"0", ">", "v", ":", "1", ",", "2", "|", "A", "1", "F", "0", "\n">>

\* 1>m:1;B;i,temp;o,r;i,temp 2|8EFE\n
LineMetadataB ==
    <<"1", ">", "m", ":", "1", ";", "B", ";", "i", ",", "t", "e", "m", "p",
      ";", "o", ",", "r", ";", "i", ",", "t", "e", "m", "p", " ", "2", "|",
      "8", "E", "F", "E", "\n">>

\* 1>v:x,7|F3E0\n
LineValuesSkip ==
    <<"1", ">", "v", ":", "x", ",", "7", "|", "F", "3", "E", "0", "\n">>

\* 1>v:5|7650\n
LineValuesShort ==
    <<"1", ">", "v", ":", "5", "|", "7", "6", "5", "0", "\n">>

\* 0>m:1;A;i,temp;i,temp|93EB\n
LineMetadataTwice ==
    <<"0", ">", "m", ":", "1", ";", "A", ";", "i", ",", "t", "e", "m", "p",
      ";", "i", ",", "t", "e", "m", "p", "|", "9", "3", "E", "B", "\n">>

\* 0>m:2;C;i,x|FC29\n
LineMetadataVersion ==
    <<"0", ">", "m", ":", "2", ";", "C", ";", "i", ",", "x", "|", "F", "C",
      "2", "9", "\n">>

\* 0>m:1|9703\n
LineMetadataNoId ==
    <<"0", ">", "m", ":", "1", "|", "9", "7", "0", "3", "\n">>

\* 0>m:1;C;o,r;i|FBE0\n
LineMetadataShort ==
    <<"0", ">", "m", ":", "1", ";", "C", ";", "o", ",", "r", ";", "i", "|",
      "F", "B", "E", "0", "\n">>

\* 0>v|859E\n
LineBareValues ==
    <<"0", ">", "v", "|", "8", "5", "9", "E", "\n">>

\* 0>m|2BCC\n
LineBareMetadata ==
    <<"0", ">", "m", "|", "2", "B", "C", "C", "\n">>

\* -1>v:1|B833\n
LineNegativeIndex ==
    <<"-", "1", ">", "v", ":", "1", "|", "B", "8", "3", "3", "\n">>

\* - 1>v:1|BBDF\n
LineSpacedIndex ==
    <<"-", " ", "1", ">", "v", ":", "1", "|", "B", "B", "D", "F", "\n">>

\* x>v:1|A032\n
LineBadIndex ==
    <<"x", ">", "v", ":", "1", "|", "A", "0", "3", "2", "\n">>

\* p|7C00\n
LinePoll ==
    <<"p", "|", "7", "C", "0", "0", "\n">>

\* 0>v:23.5\n
LineNoChecksum ==
    <<"0", ">", "v", ":", "2", "3", ".", "5", "\n">>

\* 0>m:1;devA;i,temp;o,relay|8F1E\n
LineMismatch ==
    <<"0", ">", "m", ":", "1", ";", "d", "e", "v", "A", ";", "i", ",", "t",
      "e", "m", "p", ";", "o", ",", "r", "e", "l", "a", "y", "|", "8", "F",
      "1", "E", "\n">>

\* 0>v:23.5|zz\n
LineNotHex ==
    <<"0", ">", "v", ":", "2", "3", ".", "5", "|", "z", "z", "\n">>

\* 0>v:23.5|+ 47AE\n
LineSignedChecksum ==
    <<"0", ">", "v", ":", "2", "3", ".", "5", "|", "+", " ", "4", "7", "A", "E", "\n">>

\* 0>v:23.5|47AE, a vertical tab, \n
LineVerticalTab ==
    <<"0", ">", "v", ":", "2", "3", ".", "5", "|", "4", "7", "A", "E", VerticalTab, "\n">>

\* 0>v:23.5|47ae\n
LineLowerCase ==
    <<"0", ">", "v", ":", "2", "3", ".", "5", "|", "4", "7", "a", "e", "\n">>

\* 
LineEmpty ==
    <<>>

\* 0>m:1;devO;o,relay;i,temp;o,fan|BE5D\n
LineMetadataOutputs ==
    <<"0", ">", "m", ":", "1", ";", "d", "e", "v", "O", ";", "o", ",", "r",
      "e", "l", "a", "y", ";", "i", ",", "t", "e", "m", "p", ";", "o", ",",
      "f", "a", "n", "|", "B", "E", "5", "D", "\n">>

\* 0>m:1;devA|177E\n
LineMetadataIdOnly ==
    <<"0", ">", "m", ":", "1", ";", "d", "e", "v", "A", "|", "1", "7", "7",
      "E", "\n">>

\* >v:1|DC48\n
LineEmptyIndex ==
    <<">", "v", ":", "1", "|", "D", "C", "4", "8", "\n">>

\* The lines of one run come from one of these sets, fixed when the run
\* starts: each set is the traffic of one situation on the serial line.
FeedFraming ==
    {LineMetadataA, LineValuesA, LineNoChecksum, LineMismatch, LineNotHex,
     LineLowerCase, LineSignedChecksum, LineVerticalTab, LineEmpty}

FeedMetadata ==
    {LineMetadataA, LineValuesA, LineMetadataTwice, LineMetadataVersion,
     LineMetadataNoId, LineMetadataShort}

FeedNames ==
    {LineMetadataA, LineMetadataB, LineValuesTwo, LineValuesSkip, LineValuesShort}

FeedIndex ==
    {LineValuesA, LineBareValues, LineBareMetadata, LineNegativeIndex,
     LineSpacedIndex, LineBadIndex, LineEmptyIndex, LinePoll, LineMetadataIdOnly}

FeedOutputs == {LineMetadataOutputs}

Feeds == {FeedFraming, FeedMetadata, FeedNames, FeedIndex, FeedOutputs}

AllLines == UNION Feeds

\* Every line of every feed, stripped as receiver_loop strips it, with what
\* Decode makes of it: computed once, and looked up by Decoded.  A message
\* that is no line of a feed is decoded when it is read.
DecodeTable == {<<strip[line], Decode(strip[line])>> : line \in AllLines \ {LineEmpty}}

Decoded(message) ==
    IF \E entry \in DecodeTable : entry[1] = message
    THEN (CHOOSE entry \in DecodeTable : entry[1] = message)[2]
    ELSE Decode(message)

(***************************************************************************)
(* Hub.process_serial_message: what it does to the hub                     *)
(***************************************************************************)

\* what a call leaves behind
Outcome(devices, components, written, handled, raised) ==
    [devices |-> devices, components |-> components, written |-> written,
     handled |-> handled, raised |-> raised]

\* values_loop that gives a value to every component, whatever its direction
RECURSIVE values_loop_AnyDirection(_, _, _, _, _)
values_loop_AnyDirection(comps, ev, arg_index, handlers, raising) ==
    IF comps = <<>> THEN <<>>
    ELSE IF arg_index < Len(ev.values)
    THEN (IF ev.numeric[arg_index + 1]
          THEN run_input_handlers(handlers, raising, comps[1], ev.values[arg_index + 1])
          ELSE <<>>)
         \o values_loop_AnyDirection(Tail(comps), ev, arg_index + 1, handlers, raising)
    ELSE <<>>

\* values_loop with arg_index advanced only past the values float() accepts:
\* a rejected value is offered to the next component of direction in
RECURSIVE values_loop_NoAdvance(_, _, _, _, _)
values_loop_NoAdvance(comps, ev, arg_index, handlers, raising) ==
    IF comps = <<>> THEN <<>>
    ELSE IF comps[1].dir = "in"
    THEN IF arg_index < Len(ev.values)
         THEN IF ev.numeric[arg_index + 1]
              THEN run_input_handlers(handlers, raising, comps[1],
                                      ev.values[arg_index + 1])
                   \o values_loop_NoAdvance(Tail(comps), ev, arg_index + 1,
                                            handlers, raising)
              ELSE values_loop_NoAdvance(Tail(comps), ev, arg_index,
                                         handlers, raising)
         ELSE <<>>
    ELSE values_loop_NoAdvance(Tail(comps), ev, arg_index, handlers, raising)

\* lines 165-177: the walk over the device's components, arg_index counted
\* from 0; the result is the sequence of handler calls made.  A value that
\* float() rejects, and an exception of a handler, are swallowed by the
\* bare except; arg_index advances either way.
RECURSIVE values_loop(_, _, _, _, _)
values_loop(comps, ev, arg_index, handlers, raising) ==
    IF comps = <<>> THEN <<>>
    ELSE IF comps[1].dir = "in"
    THEN IF arg_index < Len(ev.values)
         THEN (IF ev.numeric[arg_index + 1]
               THEN run_input_handlers(handlers, raising, comps[1],
                                       ev.values[arg_index + 1])
               ELSE <<>>)
              \o values_loop(Tail(comps), ev, arg_index + 1, handlers, raising)
         ELSE <<>>
    ELSE values_loop(Tail(comps), ev, arg_index, handlers, raising)

\* Direction with the two directions exchanged
Direction_Swapped(code) == IF code = <<"o">> THEN "in" ELSE "out"

\* line 200: the direction a direction code stands for
Direction(code) == IF code = <<"o">> THEN "out" ELSE "in"

\* add_component without the search for the type on the device
add_component_NoLookup(comp_info, index, reg) ==
    [dcomps |->
         Append(reg.dcomps,
                Component(index, Direction(comp_info[1]),
                          comp_info[2], None, None,
                          assign_name(reg.components, comp_info[2]))),
     components |->
         Append(reg.components,
                Component(index, Direction(comp_info[1]),
                          comp_info[2], None, None,
                          assign_name(reg.components, comp_info[2])))]

\* lines 192-209: one component field of a metadata reply, comp_info being
\* its split.  reg is [dcomps, components]: device.components and
\* self.components as they are when the field is reached.
add_component(comp_info, index, reg) ==
    IF \E k \in 1..Len(reg.dcomps) : reg.dcomps[k].type = comp_info[2]
    THEN reg
    ELSE [dcomps |->
              Append(reg.dcomps,
                     Component(index,
                               Direction(comp_info[1]),
                               comp_info[2],
                               IF Len(comp_info) > 2 THEN comp_info[3] ELSE None,
                               IF Len(comp_info) > 3 THEN comp_info[4] ELSE None,
                               assign_name(reg.components, comp_info[2]))),
          components |->
              Append(reg.components,
                     Component(index,
                               Direction(comp_info[1]),
                               comp_info[2],
                               IF Len(comp_info) > 2 THEN comp_info[3] ELSE None,
                               IF Len(comp_info) > 3 THEN comp_info[4] ELSE None,
                               assign_name(reg.components, comp_info[2])))]

\* lines 190-209: the loop over the component fields from field k on.
\* raised is TRUE when comp_info[1] is an IndexError, which leaves the loop
\* with what was added so far.
RECURSIVE metadata_loop(_, _, _, _)
metadata_loop(infos, k, index, reg) ==
    IF k > Len(infos) THEN [dcomps |-> reg.dcomps, components |-> reg.components,
                            raised |-> FALSE]
    ELSE IF Len(infos[k]) < 2 THEN [dcomps |-> reg.dcomps, components |-> reg.components,
                                    raised |-> TRUE]
    ELSE CHOOSE result \in {metadata_loop(infos, k + 1, index, next) :
                               next \in {add_component(infos[k], index, reg)}} : TRUE

\* process_values without lines 178-180: nothing is requested from a device
\* whose record has no components
process_values_NoRequest(ev, devices, components, handlers, raising) ==
    IF devices[ev.device_index].components # <<>>
    THEN Outcome(devices, components, <<>>,
                 values_loop(devices[ev.device_index].components, ev, 0,
                             handlers, raising),
                 FALSE)
    ELSE Outcome(devices, components, <<>>, <<>>, FALSE)

\* lines 162-180: a 'v' message for a device that has a record
process_values(ev, devices, components, handlers, raising) ==
    IF devices[ev.device_index].components # <<>>
    THEN Outcome(devices, components, <<>>,
                 values_loop(devices[ev.device_index].components, ev, 0,
                             handlers, raising),
                 FALSE)
    ELSE Outcome(devices, components,
                 <<Sent(FormatInt(ev.device_index) \o <<">", "m">>)>>,
                 <<>>, FALSE)

\* VersionAccepted without the comparison: every version is taken
VersionAccepted_Any(version) == TRUE

\* line 186: the version the hub understands
VersionAccepted(version) == version = <<"1">>

\* lines 183-210: an 'm' message for a device that has a record
process_metadata(ev, devices, components) ==
    LET device == devices[ev.device_index]
        version == ev.fields[1]
        loop == metadata_loop(ev.infos, 1, ev.device_index,
                              [dcomps |-> device.components, components |-> components])
    IN  IF ~VersionAccepted(version) THEN Outcome(devices, components, <<>>, <<>>, FALSE)
        ELSE IF Len(ev.fields) < 2 THEN Outcome(devices, components, <<>>, <<>>, TRUE)
        ELSE CHOOSE result \in
                 {Outcome([devices EXCEPT ![ev.device_index] =
                               [device EXCEPT !.id = ev.fields[2],
                                              !.components = done.dcomps]],
                          done.components, <<>>, <<>>, done.raised) :
                      done \in {loop}} : TRUE

\* Seen without the assignment of line 159
Seen_Unrefreshed(devices, index) == devices

\* device.last_message_time = time.time()
Seen(devices, index) == [devices EXCEPT ![index].silence = 0]

\* lines 157-216: a parsed message routed to the device's record
process_event(ev, devices, components, handlers, raising) ==
    IF ev.device_index \in DOMAIN devices
    THEN IF ev.command = <<"v">>
         THEN process_values(ev, Seen(devices, ev.device_index), components,
                             handlers, raising)
         ELSE IF ev.command = <<"m">>
         THEN process_metadata(ev, Seen(devices, ev.device_index), components)
         ELSE Outcome(Seen(devices, ev.device_index), components, <<>>, <<>>, FALSE)
    ELSE Outcome([i \in DOMAIN devices \cup {ev.device_index} |->
                      IF i = ev.device_index THEN Device(i) ELSE devices[i]],
                 components,
                 <<Sent(FormatInt(ev.device_index) \o <<">", "m">>)>>,
                 <<>>, FALSE)

\* the whole of process_serial_message
process_serial_message(message, devices, components, handlers, raising) ==
    IF Decoded(message).check = "raise"
    THEN Outcome(devices, components, <<>>, <<>>, TRUE)
    ELSE IF Decoded(message).check # "ok"
    THEN Outcome(devices, components, <<>>, <<>>, FALSE)
    ELSE IF ~Decoded(message).relevant
    THEN Outcome(devices, components, <<>>, <<>>, FALSE)
    ELSE process_event(Decoded(message), devices, components, handlers, raising)

(***************************************************************************)
(* Hub.set_output_value                                                    *)
(***************************************************************************)

\* line 106: component.output_value = value, component being the k-th
\* Component object of its device's list
StoreOutput(comps, k, value) == [comps EXCEPT ![k].output_value = value]

\* OutputValuesOf that takes the components of either direction
OutputValuesOf_All(comps) == [k \in 1..Len(comps) |-> comps[k].output_value]

\* lines 107-110: str(c.output_value) of the out components, in stored order
OutputValuesOf(comps) ==
    [k \in 1..Len(SelectSeq(comps, LAMBDA c : c.dir = "out")) |->
        SelectSeq(comps, LAMBDA c : c.dir = "out")[k].output_value]

\* the whole of set_output_value, for the k-th component of the Device
\* object device = component.device, which the device map may or may not
\* hold: the object after the call, and the line written from its list
set_output_value(device, k, value) ==
    [device |-> [device EXCEPT !.components = StoreOutput(@, k, value)],
     written |->
         <<Sent(
               FormatInt(device.index) \o <<">", "s", ":">>
               \o join[",", OutputValuesOf(StoreOutput(device.components, k, value))])>>]

\* the hub's list after line 106 on a Component object the list holds:
\* the list and the device's list share the object
SharedOutput(comps, component, value) ==
    [j \in 1..Len(comps) |->
        IF comps[j] = component THEN [comps[j] EXCEPT !.output_value = value]
        ELSE comps[j]]

\* the most handlers the application registers
MaxHandlers == 2


\* The application of a run drives the outputs in the situation of
\* FeedOutputs, a device with two outputs; in the others it only listens.
Application(lines) == IF lines = FeedOutputs THEN OutputValues ELSE {}

\* the indexes of the devices with components that a turn of the
\* disconnect checker removes
Evicted(devs) == {i \in DOMAIN devs : Silent(devs[i]) /\ devs[i].components # <<>>}

\* Component.device keeps the Device object of a component the application
\* holds alive after line 101 took it out of the map.  The application of
\* the runs holds the components of one such object at a time, those of the
\* device removed last (of the least index, if a turn removes several); an
\* application that sets no output holds none.
Keep(held, devs, lines) ==
    IF Application(lines) = {} \/ Evicted(devs) = {} THEN held
    ELSE <<devs[CHOOSE m \in Evicted(devs) : \A i \in Evicted(devs) : m <= i]>>

(***************************************************************************)
(* The hub                                                                 *)
(***************************************************************************)

VARIABLES
    devices,         \* self.devices: index -> Device
    components,      \* self.components
    input_handlers,  \* self.input_handlers
    receiver,        \* the receiver greenlet: "running", or "dead" once an
                     \* exception has left receiver_loop
    checker_sleep,   \* ticks left of the disconnect checker's gevent.sleep
    received,         \* the stripped line the latest step read, None if the
                     \* latest step was not the receiver's
    written,         \* the lines the latest step wrote to the serial port
    handled,         \* the handler calls the latest step made
    feed,            \* the lines the serial port can deliver in this run
    kept             \* the Device objects no longer in self.devices whose
                     \* components the application still holds

vars ==
    <<devices, components, input_handlers, receiver, checker_sleep, received,
      written, handled, feed, kept>>

\* Hub.__init__, and the first gevent.sleep of the disconnect checker
InitHub ==
    /\ devices = [i \in {} |-> None]
    /\ components = <<>>
    /\ input_handlers = <<>>
    /\ receiver = "running"
    /\ checker_sleep = CheckInterval
    /\ received = None
    /\ written = <<>>
    /\ handled = <<>>
    /\ kept = <<>>

Init == InitHub /\ feed \in Feeds

\* Hub.add_input_handler
AddInputHandler ==
    /\ Len(input_handlers) < MaxHandlers
    /\ input_handlers' = Append(input_handlers, Len(input_handlers) + 1)
    /\ received' = None
    /\ written' = <<>>
    /\ handled' = <<>>
    /\ UNCHANGED <<devices, components, receiver, checker_sleep, feed, kept>>

\* Hub.polling_loop: one turn of the loop
Poll ==
    /\ written' = <<Sent(<<"p">>)>>
    /\ received' = None
    /\ handled' = <<>>
    /\ UNCHANGED <<devices, components, input_handlers, receiver, checker_sleep,
                   feed, kept>>

\* Hub.receiver_loop: one turn of the loop, reading line.  An exception of
\* process_serial_message leaves the loop and ends the greenlet.
Receive(line, raising) ==
    /\ receiver = "running"
    /\ received' = strip[line]
    /\ IF strip[line] = <<>>
       THEN /\ written' = <<>>
            /\ handled' = <<>>
            /\ UNCHANGED <<devices, components, receiver>>
       ELSE \E out \in {process_serial_message(strip[line], devices, components,
                                               input_handlers, raising)} :
                /\ devices' = out.devices
                /\ components' = out.components
                /\ written' = out.written
                /\ handled' = out.handled
                /\ receiver' = IF out.raised THEN "dead" ELSE "running"
    /\ UNCHANGED <<input_handlers, checker_sleep, feed, kept>>

\* Hub.disconnect_checker: one turn of the loop, once its sleep is over
DisconnectCheck ==
    /\ checker_sleep = 0
    /\ devices' = disconnect_check(devices, components).devices
    /\ components' = disconnect_check(devices, components).components
    /\ checker_sleep' = CheckInterval
    /\ received' = None
    /\ written' = <<>>
    /\ handled' = <<>>
    /\ kept' = Keep(kept, devices, feed)
    /\ UNCHANGED <<input_handlers, receiver, feed>>

\* half a time unit passes
Tick ==
    /\ devices' = [i \in DOMAIN devices |->
                       [devices[i] EXCEPT !.silence =
                            IF @ < MaxSilence THEN @ + 1 ELSE @]]
    /\ checker_sleep' = IF checker_sleep > 0 THEN checker_sleep - 1 ELSE 0
    /\ received' = None
    /\ written' = <<>>
    /\ handled' = <<>>
    /\ UNCHANGED <<components, input_handlers, receiver, feed, kept>>

\* the application calls Hub.set_output_value with a Component object it
\* holds: one of the hub's list, which a device of the map shares, or one of
\* a Device object the disconnect checker has taken out of the map
SetOutputValue ==
    /\ \/ \E i \in DOMAIN devices : \E k \in 1..Len(devices[i].components) :
              \E value \in Application(feed) :
                  \E out \in {set_output_value(devices[i], k, value)} :
                      /\ devices' = [devices EXCEPT ![i] = out.device]
                      /\ components' = SharedOutput(components,
                                                    devices[i].components[k], value)
                      /\ written' = out.written
                      /\ kept' = kept
       \/ \E n \in 1..Len(kept) : \E k \in 1..Len(kept[n].components) :
              \E value \in Application(feed) :
                  \E out \in {set_output_value(kept[n], k, value)} :
                      /\ kept' = [kept EXCEPT ![n] = out.device]
                      /\ written' = out.written
                      /\ UNCHANGED <<devices, components>>
    /\ received' = None
    /\ handled' = <<>>
    /\ UNCHANGED <<input_handlers, receiver, checker_sleep, feed>>

ReceiveAny ==
    \E line \in feed : \E raising \in SUBSET (1..Len(input_handlers)) :
        Receive(line, raising)

Next ==
    \/ AddInputHandler
    \/ Poll
    \/ ReceiveAny
    \/ SetOutputValue
    \/ DisconnectCheck
    \/ Tick

Spec == Init /\ [][Next]_vars

\* The scheduler of gevent runs every greenlet that is ready: time passes,
\* and the disconnect checker runs once its sleep is over.
LiveSpec == Init /\ [][Next]_vars /\ WF_vars(Tick) /\ WF_vars(DisconnectCheck)

(***************************************************************************)
(* Properties                                                              *)
(***************************************************************************)

\* the body of a framed message and its checksum field
Body(m) == split[m, "|"][1]

ChecksumField(m) == split[m, "|"][2]

\* the stripped lines without '|', and those whose checksum field is a
\* number other than the checksum of the body
NoSeparator == {m \in {strip[l] : l \in AllLines} : m # <<>> /\ ~Contains(m, "|")}

Mismatched ==
    {m \in {strip[l] : l \in AllLines} :
        /\ Contains(m, "|")
        /\ ParseHex[ChecksumField(m)].ok
        /\ ParseHex[ChecksumField(m)].value # crc16_ccitt(Body(m))}

\* C1: no received line ends the receiver: whatever line is read,
\* process_serial_message returns and receiver_loop goes on to the next line.
ReceiverNeverDies == receiver = "running"

\* C2: a step of the receiver that reads a line without '|', or a line whose
\* checksum field is not the checksum of its body, changes neither the device
\* map (ids, component lists, last-seen times) nor the component list of the
\* hub, calls no handler and writes nothing.
BadFrameDropped ==
    [][received' \in NoSeparator \cup Mismatched =>
           /\ devices' = devices
           /\ components' = components
           /\ handled' = <<>>
           /\ written' = <<>>]_vars

\* a line without separator and a line with a wrong checksum have each been
\* read while device 0 had its metadata
BadFrameSeen ==
    /\ received \in {strip[LineNoChecksum], strip[LineMismatch]}
    /\ 0 \in DOMAIN devices
    /\ Len(devices[0].components) = 2
    /\ input_handlers # <<>>

\* the commands the serial line can carry to a device: the stripped lines
\* whose checksum is right, whose body has '>' and whose index int() accepts
Addressed ==
    {m \in {strip[l] : l \in AllLines} :
        /\ Contains(m, "|")
        /\ ParseHex[ChecksumField(m)].ok
        /\ ParseHex[ChecksumField(m)].value = crc16_ccitt(Body(m))
        /\ Contains(Body(m), ">")
        /\ ParseInt[split1[Body(m), ">"][1]].ok}

\* the device index such a message carries
IndexOf(m) == ParseInt[split1[Body(m), ">"][1]].value

\* each addressed message with its index and the framed line that requests
\* the metadata of that index
RequestTable ==
    {[message |-> m, index |-> IndexOf(m),
      request |-> FormatInt(IndexOf(m)) \o <<">", "m", "|">>
                  \o FormatHex[crc16_ccitt(FormatInt(IndexOf(m)) \o <<">", "m">>)]
                  \o <<"\n">>] : m \in Addressed}

\* C3: a step of the receiver that reads a checksum-valid message carrying a
\* device index without a record adds a record for that index with no id and
\* no components, leaves the other records and the component list alone, and
\* writes exactly one line, the framed request '<index>>m'.
UnknownIndexRequestsMetadata ==
    [][\A a \in RequestTable :
           (received' = a.message /\ a.index \notin DOMAIN devices) =>
               /\ DOMAIN devices' = DOMAIN devices \cup {a.index}
               /\ devices'[a.index].index = a.index
               /\ devices'[a.index].id = None
               /\ devices'[a.index].components = <<>>
               /\ \A i \in DOMAIN devices : devices'[i] = devices[i]
               /\ components' = components
               /\ handled' = <<>>
               /\ written' = <<a.request>>]_vars

\* device 0 has a fresh record and its request '0>m|2BCC' has just been
\* written, while device 1 holds the name 'temp 2' it was given when device 0
\* held 'temp': the record of device 0 was evicted and is created again
RequestAfterEviction ==
    /\ received = strip[LineValuesTwo]
    /\ 0 \in DOMAIN devices
    /\ devices[0].id = None
    /\ devices[0].components = <<>>
    /\ written = <<LineBareMetadata>>
    /\ \E k \in 1..Len(components) :
           /\ components[k].device = 1
           /\ components[k].type = <<"t", "e", "m", "p">>
           /\ components[k].name = <<"t", "e", "m", "p", " ", "2">>
    /\ \A k \in 1..Len(components) : components[k].device = 1

\* the command and the argument text of an addressed message with ':'
CommandOf(m) == split1[split1[Body(m), ">"][2], ":"][1]

ArgsOf(m) == split1[split1[Body(m), ">"][2], ":"][2]

\* the ';'-separated fields of a metadata reply, and its component fields
\* split at ','
Fields(m) == split[ArgsOf(m), ";"]

Described(m) == [k \in 1..(Len(Fields(m)) - 2) |-> split[Fields(m)[k + 2], ","]]

\* the metadata replies on the serial line
MetadataReplies ==
    {m \in Addressed : Contains(Body(m), ":") /\ CommandOf(m) = <<"m">>}

\* the replies of version 1 with a device identifier and, in every component
\* field, a type after the direction code
WellFormedReplies ==
    {m \in MetadataReplies :
        /\ Fields(m)[1] = <<"1">>
        /\ Len(Fields(m)) >= 2
        /\ \A k \in 1..Len(Described(m)) : Len(Described(m)[k]) >= 2}

\* a well-formed reply as the properties read it: the index it carries, its
\* identifier, its component fields and the types they describe
Reply(m) ==
    [message |-> m, index |-> IndexOf(m), id |-> Fields(m)[2],
     described |-> Described(m),
     types |-> {Described(m)[k][2] : k \in 1..Len(Described(m))}]

ReplyTable == {Reply(m) : m \in WellFormedReplies}

\* the field of a reply that describes a type first
FirstField(described, type) ==
    CHOOSE k \in 1..Len(described) :
        /\ described[k][2] = type
        /\ \A j \in 1..(k - 1) : described[j][2] # type

\* the components of a device after the reply r, old being those before it:
\* those before, followed by one component for each described type the
\* device did not have, in the order of the reply, with the direction of the
\* field that describes the type first
ComponentsAfter(r, old, new) ==
    /\ Len(new) >= Len(old)
    /\ SubSeq(new, 1, Len(old)) = old
    /\ {new[k].type : k \in 1..Len(new)}
           = {old[k].type : k \in 1..Len(old)} \cup r.types
    /\ \A a, b \in (Len(old) + 1)..Len(new) :
           a < b => FirstField(r.described, new[a].type)
                        < FirstField(r.described, new[b].type)
    /\ \A a \in (Len(old) + 1)..Len(new) :
           /\ new[a].device = r.index
           /\ new[a].dir =
                  IF r.described[FirstField(r.described, new[a].type)][1] = <<"o">>
                  THEN "out" ELSE "in"

\* the text 23.5, the types temp and relay, the identifier devA
Text235 == <<"2", "3", ".", "5">>

TypeTemp == <<"t", "e", "m", "p">>

TypeRelay == <<"r", "e", "l", "a", "y">>

IdDevA == <<"d", "e", "v", "A">>

\* C4, as the specification states it: a well-formed reply of version 1 for
\* index i, whether or not i has a record, leaves device i with the id of
\* the reply and a component for each described type, named after the type.
ReplyStoredWithOrWithoutRecord ==
    [][\A r \in ReplyTable : received' = r.message =>
           /\ devices'[r.index].id = r.id
           /\ \A type \in r.types :
                  \E k \in 1..Len(devices'[r.index].components) :
                      /\ devices'[r.index].components[k].type = type
                      /\ devices'[r.index].components[k].name = type]_vars

\* C4, corrected: a well-formed reply of version 1 for an index that has a
\* record leaves the device with the id of the reply and appends, to the
\* device and to the hub's list, one component for each described type the
\* device did not have, in the order of the reply, 'o' being out and any
\* other code in, each named after its type unless that name is in use; for
\* an index without a record the reply is dropped, the record created with
\* no id and no components.  A values message '0>v:23.5' for device 0 with
\* components temp (in) and relay (out) calls the handlers, in order of
\* registration up to one that raises, with the component temp and '23.5'.
ReplyStoredForKnownDevice ==
    [][/\ \A r \in ReplyTable :
              (received' = r.message /\ r.index \in DOMAIN devices) =>
                  /\ devices'[r.index].id = r.id
                  /\ ComponentsAfter(r, devices[r.index].components,
                                     devices'[r.index].components)
                  /\ components' =
                         components
                         \o SubSeq(devices'[r.index].components,
                                   Len(devices[r.index].components) + 1,
                                   Len(devices'[r.index].components))
                  /\ \A k \in (Len(components) + 1)..Len(components') :
                         \/ components'[k].name = components'[k].type
                         \/ \E j \in 1..(k - 1) :
                                components'[j].name = components'[k].type
                  /\ handled' = <<>>
       /\ \A r \in ReplyTable :
              (received' = r.message /\ r.index \notin DOMAIN devices) =>
                  /\ devices'[r.index].id = None
                  /\ devices'[r.index].components = <<>>
                  /\ components' = components
       /\ (/\ received' = strip[LineValuesA]
           /\ 0 \in DOMAIN devices
           /\ Len(devices[0].components) = 2
           /\ devices[0].components[1].type = TypeTemp
           /\ devices[0].components[1].dir = "in"
           /\ devices[0].components[2].type = TypeRelay
           /\ devices[0].components[2].dir = "out") =>
              /\ Len(handled') <= Len(input_handlers)
              /\ input_handlers # <<>> => handled' # <<>>
              /\ \A k \in 1..Len(handled') :
                     /\ handled'[k].handler = input_handlers[k]
                     /\ handled'[k].component = devices[0].components[1]
                     /\ handled'[k].values = Text235]_vars

\* device 0 holds the id devA and the components temp (in) and relay (out),
\* named after their types, and two handlers have just been called with temp
\* and '23.5'
ReplyStoredThenNotified ==
    /\ received = strip[LineValuesA]
    /\ 0 \in DOMAIN devices
    /\ devices[0].id = IdDevA
    /\ Len(devices[0].components) = 2
    /\ devices[0].components[1].name = TypeTemp
    /\ devices[0].components[1].dir = "in"
    /\ devices[0].components[2].name = TypeRelay
    /\ devices[0].components[2].dir = "out"
    /\ components = devices[0].components
    /\ Len(handled) = 2
    /\ handled[2].component.name = TypeTemp
    /\ handled[2].values = Text235

\* C5: in every reachable state no device holds two components of the same
\* type.
NoDuplicateTypes ==
    \A i \in DOMAIN devices :
        \A a, b \in 1..Len(devices[i].components) :
            a # b => devices[i].components[a].type # devices[i].components[b].type

\* device 0, which already held temp and relay from an earlier reply, has
\* just processed the reply that lists temp twice
TwiceListedProcessed ==
    /\ received = strip[LineMetadataTwice]
    /\ 0 \in DOMAIN devices
    /\ devices[0].id = <<"A">>
    /\ Len(devices[0].components) = 2
    /\ devices[0].components[1].type = TypeTemp

\* the name assign_name gives a type when the names in use are names: the
\* type, or the type with the least suffix from 2 on that is not in use
LeastSuffix(names, type) ==
    CHOOSE n \in 2..(Cardinality(names) + 2) :
        /\ type \o <<" ">> \o FormatInt(n) \notin names
        /\ \A j \in 2..(n - 1) : type \o <<" ">> \o FormatInt(j) \in names

ExpectedName(names, type) ==
    IF type \notin names THEN type
    ELSE type \o <<" ">> \o FormatInt(LeastSuffix(names, type))

\* C6: in every reachable state no two components of the hub's list have the
\* same name, and every component a step appends to the list is named after
\* its type, or, when that name is in use, by the type followed by the least
\* suffix from 2 on that is not in use.
NamesUniqueAndSuffixed ==
    /\ [](\A a, b \in 1..Len(components) :
              a # b => components[a].name # components[b].name)
    /\ [][Len(components') > Len(components) =>
              \A k \in (Len(components) + 1)..Len(components') :
                  components'[k].name =
                      ExpectedName({components'[j].name : j \in 1..(k - 1)},
                                   components'[k].type)]_vars

\* device 1 came after device 0: its temp is named 'temp 2', and its type
\* 'temp 2', whose name was then in use, is named 'temp 2 2'
SuffixedNamesGiven ==
    /\ Len(components) = 5
    /\ components[1].device = 0
    /\ components[1].name = TypeTemp
    /\ components[3].type = TypeTemp
    /\ components[3].name = TypeTemp \o <<" ", "2">>
    /\ components[5].type = TypeTemp \o <<" ", "2">>
    /\ components[5].name = TypeTemp \o <<" ", "2", " ", "2">>

\* device i has been silent for longer than the threshold
Stale(i) == i \in DOMAIN devices /\ devices[i].silence > SilenceThreshold

\* the indexes of the devices on the serial line
Indexes == {a.index : a \in RequestTable}

\* C7: a device that has been silent for longer than the threshold is
\* eventually removed by the disconnect checker, unless a message for it is
\* processed first; and a run of the checker removes the silent devices from
\* the map and their components from the hub's list, the components of the
\* other devices staying in place.
SilentDeviceEvicted ==
    /\ \A i \in Indexes : Stale(i) ~> (i \notin DOMAIN devices \/ ~Stale(i))
    /\ [][checker_sleep' > checker_sleep =>
              /\ DOMAIN devices' = {i \in DOMAIN devices : ~Stale(i)}
              /\ \A i \in DOMAIN devices' : devices'[i] = devices[i]
              /\ components' =
                     SelectSeq(components, LAMBDA c : c.device \in DOMAIN devices')
              /\ \A k \in 1..Len(components') :
                     components'[k].device \in DOMAIN devices']_vars

\* the checker has just run and removed device 0 with its components, while
\* device 1 and its three components stay
EvictedOneKeptOther ==
    /\ checker_sleep = CheckInterval
    /\ DOMAIN devices = {1}
    /\ Len(components) = 3
    /\ components[1].name = TypeTemp \o <<" ", "2">>
    /\ \A k \in 1..Len(components) : components[k].device = 1

\* the replies of version 1 without a device identifier, or with a component
\* field that has no type after the direction code
MalformedTable ==
    {[message |-> m, index |-> IndexOf(m)] :
        m \in {x \in MetadataReplies \ WellFormedReplies : Fields(x)[1] = <<"1">>}}

\* C8: a malformed reply of version 1 for a device that has a record leaves
\* the id and the components of the device, and the hub's component list, as
\* they were.
MalformedReplyDiscarded ==
    [][\A r \in MalformedTable :
           (received' = r.message /\ r.index \in DOMAIN devices) =>
               /\ devices'[r.index].id = devices[r.index].id
               /\ devices'[r.index].components = devices[r.index].components
               /\ components' = components]_vars

\* the replies whose version is not 1
OtherVersionTable ==
    {[message |-> m, index |-> IndexOf(m)] :
        m \in {x \in MetadataReplies : Fields(x)[1] # <<"1">>}}

\* C9: a reply whose version is not '1' leaves the id and the components of
\* the addressed device, and the hub's component list, unchanged.
OtherVersionIgnored ==
    [][\A r \in OtherVersionTable :
           (received' = r.message /\ r.index \in DOMAIN devices) =>
               /\ devices'[r.index].id = devices[r.index].id
               /\ devices'[r.index].components = devices[r.index].components
               /\ components' = components
               /\ handled' = <<>>
               /\ written' = <<>>]_vars

\* device 0, which holds the id devA and two components, has just processed
\* the reply of version 2 that carries the id C and the type x
OtherVersionProcessed ==
    /\ received = strip[LineMetadataVersion]
    /\ 0 \in DOMAIN devices
    /\ devices[0].id = IdDevA
    /\ Len(devices[0].components) = 2
    /\ devices[0].silence = 0

\* the values messages on the serial line, with their values
ValuesTable ==
    {[message |-> m, index |-> IndexOf(m), values |-> split[ArgsOf(m), ","],
      numeric |-> {j \in 1..Len(split[ArgsOf(m), ","]) :
                      IsFloat[split[ArgsOf(m), ","][j]]}] :
        m \in {x \in Addressed : Contains(Body(x), ":") /\ CommandOf(x) = <<"v">>}}

\* the components of direction in, in stored order
InComponents(comps) == SelectSeq(comps, LAMBDA c : c.dir = "in")

\* the least of two numbers
Min(a, b) == IF a < b THEN a ELSE b

\* the calls are calls of pairs (c_j, a_j), j never decreasing from one call
\* to the next: pos maps each call to its j
PairedInOrder(calls, ins, values) ==
    \E pos \in [1..Len(calls) -> 1..Min(Len(ins), Len(values))] :
        /\ \A k \in 1..Len(calls) :
               /\ calls[k].component = ins[pos[k]]
               /\ calls[k].values = values[pos[k]]
        /\ \A k \in 1..(Len(calls) - 1) : pos[k] <= pos[k + 1]

\* the calls of the handler registered first are the calls of the pairs
\* (c_j, a_j), j <= min(k, n), whose a_j float() accepts, each once and in
\* increasing j
FirstHandlerCalled(calls, ins, v) ==
    \E pos \in [1..Len(calls) -> 1..Min(Len(ins), Len(v.values))] :
        /\ \A k \in 1..Len(calls) :
               /\ calls[k].component = ins[pos[k]]
               /\ calls[k].values = v.values[pos[k]]
        /\ \A k \in 1..(Len(calls) - 1) : pos[k] < pos[k + 1]
        /\ {pos[k] : k \in 1..Len(calls)}
               = v.numeric \cap 1..Min(Len(ins), Len(v.values))

\* C10: a values message with values a_1..a_k for a device whose components
\* of direction in are c_1..c_n, n > 0 (or which has out components), calls
\* handlers only with pairs (c_j, a_j), j <= min(k, n), in increasing j, the
\* value being the text received, and the handler registered first is called
\* with every such pair whose value is a number; the message changes no
\* component, writes nothing and does not end the receiver.
ValuesPairedWithInputs ==
    [][\A v \in ValuesTable :
           (/\ received' = v.message
            /\ v.index \in DOMAIN devices
            /\ devices[v.index].components # <<>>) =>
               /\ PairedInOrder(handled', InComponents(devices[v.index].components),
                                v.values)
               /\ \A k \in 1..Len(handled') : handled'[k].component.dir = "in"
               /\ input_handlers # <<>> =>
                      FirstHandlerCalled(
                          SelectSeq(handled', LAMBDA h : h.handler = input_handlers[1]),
                          InComponents(devices[v.index].components), v)
               /\ devices'[v.index].components = devices[v.index].components
               /\ components' = components
               /\ written' = <<>>
               /\ receiver' = "running"]_vars

\* device 1, with the in components temp and 'temp 2' and the out component
\* r between them, has just processed '1>v:5': one value for two inputs, and
\* only the first input was passed to the handler
FewerValuesThanInputs ==
    /\ received = strip[LineValuesShort]
    /\ 1 \in DOMAIN devices
    /\ Len(devices[1].components) = 3
    /\ devices[1].components[2].dir = "out"
    /\ Len(handled) = 1
    /\ handled[1].component = devices[1].components[1]
    /\ handled[1].values = <<"5">>
    /\ receiver = "running"

\* the positions j <= min(k, n) of a values message whose value float()
\* accepts: the accepted (component, value) pairs, ins being c_1..c_n
Accepted(v, ins) == v.numeric \cap 1..Min(Len(ins), Len(v.values))

\* the a-th accepted position in increasing order
NthAccepted(v, ins, a) ==
    CHOOSE j \in Accepted(v, ins) :
        Cardinality({i \in Accepted(v, ins) : i < j}) = a - 1

\* C11: a values message for a device with components calls, for every
\* accepted pair in component order, every registered handler once, in the
\* order of registration, all within the step that reads the message.
EveryHandlerCalledOnce ==
    [][\A v \in ValuesTable :
           (/\ received' = v.message
            /\ v.index \in DOMAIN devices
            /\ devices[v.index].components # <<>>) =>
               LET ins == InComponents(devices[v.index].components)
                   H == Len(input_handlers)
               IN  /\ Len(handled') = Cardinality(Accepted(v, ins)) * H
                   /\ \A a \in 1..Cardinality(Accepted(v, ins)) : \A h \in 1..H :
                          handled'[(a - 1) * H + h] =
                              [handler |-> input_handlers[h],
                               component |-> ins[NthAccepted(v, ins, a)],
                               values |-> v.values[NthAccepted(v, ins, a)]]]_vars

\* the first of two handlers raised on (temp, '23.5'), and the second was
\* not called
SecondHandlerSkipped ==
    /\ received = strip[LineValuesA]
    /\ Len(input_handlers) = 2
    /\ Len(handled) = 1
    /\ handled[1].handler = input_handlers[1]
    /\ handled[1].values = Text235

\* the text of the output values of the out components of comps, in stored
\* order, separated by commas
Csv(comps) ==
    LET outs == SelectSeq(comps, LAMBDA c : c.dir = "out")
        RECURSIVE From1(_)
        From1(k) ==
            IF k > Len(outs) THEN <<>>
            ELSE (IF k > 1 THEN <<",">> ELSE <<>>) \o outs[k].output_value \o From1(k + 1)
    IN  From1(1)

\* the line that carries the output vector of device i of devs
VectorLine(devs, i) ==
    FormatInt(i) \o <<">", "s", ":">> \o Csv(devs[i].components) \o <<"|">>
    \o FormatHex[crc16_ccitt(FormatInt(i) \o <<">", "s", ":">> \o Csv(devs[i].components))]
    \o <<"\n">>

\* 0>s:0,1|EFE3\n
LineOutputsZeroOne ==
    <<"0", ">", "s", ":", "0", ",", "1", "|", "E", "F", "E", "3", "\n">>

\* the checksummed line of the command '<index>>s:<csv>'
CommandLine(index, csv) ==
    FormatInt(index) \o <<">", "s", ":">> \o csv \o <<"|">>
    \o FormatHex[crc16_ccitt(FormatInt(index) \o <<">", "s", ":">> \o csv)]
    \o <<"\n">>

\* the lines of the output vectors of a device 0 with two outputs, each
\* computed once
VectorTable ==
    {[index |-> 0, csv |-> v \o <<",">> \o w,
      line |-> CommandLine(0, v \o <<",">> \o w)] :
        v \in OutputValues, w \in OutputValues}

\* the line that carries the output vector of a Device object
DeviceVectorLine(device) ==
    IF \E t \in VectorTable :
           t.index = device.index /\ t.csv = Csv(device.components)
    THEN (CHOOSE t \in VectorTable :
              t.index = device.index /\ t.csv = Csv(device.components)).line
    ELSE CommandLine(device.index, Csv(device.components))

\* after differs from before at most in the output value of its k-th component
OnlyOutputSet(before, after, k) ==
    after = [before EXCEPT !.components =
                 [@ EXCEPT ![k].output_value = after.components[k].output_value]]

\* C12: a step of set_output_value stores the value on the component it is
\* called with, which changes at most that component's output value in its
\* Device object (and in the hub's list alike, when the hub holds it), and
\* writes exactly one line: the checksummed command '<index>>s:<csv>' of the
\* component's device, the csv being the output values that the out
\* components of that device hold after the step, in stored order, the in
\* components left out.  The device is the Device object of the component,
\* be it a record of the map or an object the application still holds.
OutputVectorResent ==
    [][(received' = None /\ written' # <<>> /\ written' # <<LinePoll>>) =>
           /\ Len(written') = 1
           /\ DOMAIN devices' = DOMAIN devices
           /\ Len(components') = Len(components)
           /\ \/ \E i \in DOMAIN devices : \E k \in 1..Len(devices[i].components) :
                     /\ OnlyOutputSet(devices[i], devices'[i], k)
                     /\ \A j \in DOMAIN devices \ {i} : devices'[j] = devices[j]
                     /\ written' = <<DeviceVectorLine(devices'[i])>>
                     /\ \A j \in DOMAIN devices :
                            devices'[j].components =
                                SelectSeq(components', LAMBDA c : c.device = j)
                     /\ \A n \in 1..Len(components) :
                            components[n].device # i => components'[n] = components[n]
                     /\ kept' = kept
              \/ \E n \in 1..Len(kept) : \E k \in 1..Len(kept[n].components) :
                     /\ Len(kept') = Len(kept)
                     /\ OnlyOutputSet(kept[n], kept'[n], k)
                     /\ \A m \in 1..Len(kept) : m # n => kept'[m] = kept[m]
                     /\ written' = <<DeviceVectorLine(kept'[n])>>
                     /\ devices' = devices
                     /\ components' = components]_vars

\* fan has just been set to '1' while relay holds '0': device 0 holds relay
\* (out), temp (in) and fan (out), and the line '0>s:0,1|EFE3' was written
VectorWritten ==
    /\ written = <<LineOutputsZeroOne>>
    /\ 0 \in DOMAIN devices
    /\ Len(devices[0].components) = 3
    /\ devices[0].components[1].dir = "out"
    /\ devices[0].components[1].output_value = <<"0">>
    /\ devices[0].components[2].dir = "in"
    /\ devices[0].components[3].dir = "out"
    /\ devices[0].components[3].output_value = <<"1">>
    /\ components = devices[0].components

\* 0>s:1,0|A4B6\n
LineOutputsOneZero ==
    <<"0", ">", "s", ":", "1", ",", "0", "|", "A", "4", "B", "6", "\n">>

\* the command '0>s:1,0|A4B6' has just been written for a relay the
\* application holds of a Device object that is no longer in the map: the
\* object holds '1' and '0', while the record the map now holds for index 0
\* has its relay and its fan at '0'
StaleVectorWritten ==
    /\ written = <<LineOutputsOneZero>>
    /\ kept # <<>>
    /\ kept[1].index = 0
    /\ Csv(kept[1].components) = <<"1", ",", "0">>
    /\ 0 \in DOMAIN devices
    /\ Csv(devices[0].components) = <<"0", ",", "0">>

\* the checksum-valid messages with '>' whose text before the '>' is not a
\* run of decimal digits: no text, other text, or a number with a sign
BadIndexMessages ==
    {m \in {strip[l] : l \in AllLines} :
        /\ Contains(m, "|")
        /\ ParseHex[ChecksumField(m)].ok
        /\ ParseHex[ChecksumField(m)].value = crc16_ccitt(Body(m))
        /\ Contains(Body(m), ">")
        /\ ~AllDigits[split1[Body(m), ">"][1]]}

\* C13: a checksum-valid message whose index is not a non-negative integer
\* creates no device record and sends nothing, and the device map never
\* holds a negative index.
BadIndexDropped ==
    /\ [](\A i \in DOMAIN devices : i >= 0)
    /\ [][received' \in BadIndexMessages =>
              /\ devices' = devices
              /\ components' = components
              /\ written' = <<>>
              /\ handled' = <<>>]_vars

(***************************************************************************)
(* The encoder against the decoder: the lines the hub writes, looped back  *)
(* to its own serial port, intact or with one character of the body        *)
(* replaced                                                                *)
(***************************************************************************)

\* the output values of the commands looped back, as str() gives them
CodecValues == {<<"0">>, <<"1">>, <<"1", "|", "2">>}

\* the device indexes of the commands looped back
CodecIndexes == {0, 1}

\* the bodies the hub sends: the poll, the metadata requests, and the output
\* commands with one or two values
CodecBodies ==
    {<<"p">>}
    \cup {FormatInt(i) \o <<">", "m">> : i \in CodecIndexes}
    \cup {FormatInt(i) \o <<">", "s", ":">> \o v : i \in CodecIndexes, v \in CodecValues}
    \cup {FormatInt(i) \o <<">", "s", ":">> \o v \o <<",">> \o w :
              i \in CodecIndexes, v \in CodecValues, w \in CodecValues}

\* the characters put in the place of a character of the body
CodecCharacters == {"0", "1", "x", "|"}

\* nothing is on the serial line when the hub starts
CodecInit == InitHub /\ feed = {}

\* the hub writes a command to the serial port
Send ==
    /\ feed = {}
    /\ written = <<>>
    /\ \E body \in CodecBodies : written' = <<send_serial_emssage(body)>>
    /\ received' = None
    /\ handled' = <<>>
    /\ UNCHANGED <<devices, components, input_handlers, receiver, checker_sleep,
                   feed, kept>>

\* the length of the body of a line the encoder wrote: all before the last '|'
BodyLength(line) == CHOOSE k \in 0..Len(line) : line[k + 1] = "|" /\
                        \A j \in (k + 2)..Len(line) : line[j] # "|"

\* the line written comes back on the serial port as it is
Deliver ==
    /\ feed = {}
    /\ written # <<>>
    /\ feed' = {written[1]}
    /\ UNCHANGED <<devices, components, input_handlers, receiver, checker_sleep,
                   received, written, handled, kept>>

\* the line written comes back with one character of its body replaced by
\* a different one
DeliverDamaged ==
    /\ feed = {}
    /\ written # <<>>
    /\ \E k \in 1..BodyLength(written[1]) :
           \E c \in CodecCharacters \ {written[1][k]} :
               feed' = {[written[1] EXCEPT ![k] = c]}
    /\ UNCHANGED <<devices, components, input_handlers, receiver, checker_sleep,
                   received, written, handled, kept>>

CodecNext ==
    \/ Send
    \/ Deliver
    \/ DeliverDamaged
    \/ ReceiveAny

CodecSpec == CodecInit /\ [][CodecNext]_vars

\* line differs from the written line orig in one character of the body
DamagedFrom(orig, line) ==
    /\ Len(line) = Len(orig)
    /\ \E k \in 1..BodyLength(orig) :
           /\ line[k] # orig[k]
           /\ \A j \in 1..Len(orig) : j # k => line[j] = orig[j]

\* C14: a line the encoder wrote, read back as it is, passes the checksum
\* check of the decoder, whatever body the hub sent.
RoundTripAccepted ==
    \A line \in feed :
        (written # <<>> /\ line = written[1]) => CheckChecksum(strip[line]) = "ok"

\* C15: a line the encoder wrote for a body without '|', read back with one
\* character of the body replaced, is rejected by the decoder as a checksum
\* mismatch.
DamageDetected ==
    \A line \in feed :
        (/\ written # <<>>
         /\ ~Contains(SubSeq(written[1], 1, BodyLength(written[1])), "|")
         /\ DamagedFrom(written[1], line)) =>
            CheckChecksum(strip[line]) = "mismatch"

\* the addressed messages whose payload, the text after the first '>', has
\* no ':', with their index, their payload and the framed metadata request
BareTable ==
    {[message |-> a.message, index |-> a.index, request |-> a.request,
      payload |-> split1[Body(a.message), ">"][2]] :
        a \in {r \in RequestTable : ~Contains(Body(r.message), ":")}}

\* C16: a message whose payload has no ':' is handled as the command that
\* payload names: a bare '<index>>v' read for a device whose record has no
\* components is a values event, which writes the metadata request of that
\* index and calls no handler.
BarePayloadIsCommand ==
    [][\A b \in BareTable :
           (/\ received' = b.message
            /\ b.payload = <<"v">>
            /\ b.index \in DOMAIN devices
            /\ devices[b.index].components = <<>>) =>
               /\ written' = <<b.request>>
               /\ handled' = <<>>]_vars

\* the values messages on the serial line with their index and the framed
\* metadata request of that index
PendingTable ==
    {r \in RequestTable : \E v \in ValuesTable : v.message = r.message}

\* C17: a values message read for a device whose record has no components
\* writes exactly one line, the metadata request of its index, calls no
\* handler, and leaves the record without components and with the id it
\* had; the other records and the component list do not change, and the
\* receiver goes on.  Every such message does so, whatever came before.
PendingValuesRequestMetadata ==
    [][\A p \in PendingTable :
           (/\ received' = p.message
            /\ p.index \in DOMAIN devices
            /\ devices[p.index].components = <<>>) =>
               /\ written' = <<p.request>>
               /\ handled' = <<>>
               /\ DOMAIN devices' = DOMAIN devices
               /\ devices'[p.index].components = <<>>
               /\ devices'[p.index].id = devices[p.index].id
               /\ \A i \in DOMAIN devices \ {p.index} : devices'[i] = devices[i]
               /\ components' = components
               /\ receiver' = receiver]_vars

\* device 0, whose reply gave the id devA and no component, has just sent
\* '0>v:23.5': its metadata is requested once more, no handler was called
\* although one is registered, and the record still has the id and no
\* component
PendingRequestedAgain ==
    /\ 0 \in DOMAIN devices
    /\ devices[0].id = IdDevA
    /\ devices[0].components = <<>>
    /\ received = strip[LineValuesA]
    /\ written = <<LineBareMetadata>>
    /\ input_handlers # <<>>
    /\ handled = <<>>
    /\ receiver = "running"

\* C18: in a values message read for a device that has components, a value
\* float() rejects is skipped in place: no handler is called with the
\* component of direction in at its position, every call made with the
\* component at a position carries the value at that same position, and the
\* handler registered first is called for every position whose value is a
\* number, those after a rejected value included.
RejectedValueSkippedInPlace ==
    [][\A v \in ValuesTable :
           (/\ received' = v.message
            /\ v.index \in DOMAIN devices
            /\ devices[v.index].components # <<>>) =>
               \A j \in 1..Len(v.values) :
                   j <= Len(InComponents(devices[v.index].components)) =>
                       /\ \A k \in 1..Len(handled') :
                              handled'[k].component
                                  = InComponents(devices[v.index].components)[j] =>
                                  /\ j \in v.numeric
                                  /\ handled'[k].values = v.values[j]
                       /\ (j \in v.numeric /\ input_handlers # <<>>) =>
                              \E k \in 1..Len(handled') :
                                  /\ handled'[k].handler = input_handlers[1]
                                  /\ handled'[k].component
                                         = InComponents(devices[v.index].components)[j]
                                  /\ handled'[k].values = v.values[j]]_vars

\* device 1, with the in components temp and 'temp 2', has just processed
\* '1>v:x,7': no handler was called with temp, whose value 'x' is no number,
\* and the first handler was called with 'temp 2' and the value '7'
SecondValueKeptItsPlace ==
    /\ received = strip[LineValuesSkip]
    /\ 1 \in DOMAIN devices
    /\ Len(InComponents(devices[1].components)) = 2
    /\ handled # <<>>
    /\ handled[1].handler = input_handlers[1]
    /\ handled[1].component = InComponents(devices[1].components)[2]
    /\ handled[1].values = <<"7">>
    /\ \A k \in 1..Len(handled) :
           handled[k].component # InComponents(devices[1].components)[1]
    /\ receiver = "running"

\* the components of the hub's list that device i owns, in the list's order
OwnedBy(i) == SelectSeq(components, LAMBDA c : c.device = i)

\* C19: in every reachable state, whatever the order in which the poller,
\* the receiver, the disconnect checker and the application ran, every
\* component of the hub's list is owned by a device of the device map, the
\* components the list holds for a device are that device's components in
\* their stored order, and no component occurs twice in the list.
ComponentsConsistent ==
    /\ \A k \in 1..Len(components) :
           /\ components[k].device \in DOMAIN devices
           /\ \E j \in 1..Len(devices[components[k].device].components) :
                  devices[components[k].device].components[j] = components[k]
    /\ \A i \in DOMAIN devices :
           /\ OwnedBy(i) = devices[i].components
           /\ \A j \in 1..Len(devices[i].components) :
                  Cardinality({k \in 1..Len(components) :
                                   components[k] = devices[i].components[j]}) = 1

\* the hub's list holds 'temp 2' of device 1 before 'temp' of device 0:
\* device 1 was described while device 0 held 'temp', the checker then
\* evicted device 0 with its components, and the receiver recorded device 0
\* again, behind the components of device 1
ListAfterEvictionAndReturn ==
    /\ {0, 1} \subseteq DOMAIN devices
    /\ \E k \in 1..Len(components) : \E l \in (k + 1)..Len(components) :
           /\ components[k].device = 1
           /\ components[k].name = TypeTemp \o <<" ", "2">>
           /\ components[l].device = 0
           /\ components[l].name = TypeTemp

\* C20: every checksum-valid message that carries the index of a device with
\* a record, whatever its command, leaves the record in the map with its
\* last-seen time set to the time of the message, and a step removes a
\* record only if more than 3.5 time units had passed since its last-seen
\* time: the checker never removes a device heard within 3.5 units.
RecentDeviceKept ==
    [][/\ \A a \in RequestTable :
              (received' = a.message /\ a.index \in DOMAIN devices) =>
                  /\ a.index \in DOMAIN devices'
                  /\ devices'[a.index].silence = 0
       /\ \A i \in DOMAIN devices :
              i \notin DOMAIN devices' => devices[i].silence > SilenceThreshold]_vars

\* the checker has just run, no time having passed since, and it kept a
\* device whose last message is exactly 3.5 units old
KeptAtThreshold ==
    /\ checker_sleep = CheckInterval
    /\ received = None
    /\ written = <<>>
    /\ \E i \in DOMAIN devices : devices[i].silence = SilenceThreshold
====
